---- MODULE Spec2Model ----
(***************************************************************************)
(* State-machine model of sonicare_ble/parser.py:                          *)
(* SonicareBluetoothDeviceData (advertisement parsing, poll cadence and    *)
(* the GATT poll cycle with its notification callbacks).                   *)
(***************************************************************************)
EXTENDS Integers, Sequences, FiniteSets, TLC

(* ------------------------------ bounds --------------------------------- *)

\* time.monotonic() returns whole seconds 0..MaxTime
MaxTime == 4

\* longest characteristic enumeration a connection exposes
MaxChars == 2

\* largest "seconds since the last poll" handed to poll_needed
MaxLastPoll == 4

(* ------------------------- program constants --------------------------- *)

\* None where the other values are strings
None == "None"

\* an optional value of any other type: Nothing, or Some(x)
Nothing == << >>

Some(x) == << x >>

\* an empty dict
EmptyDict == [ k \in {} |-> None ]

SONICARE_MANUFACTURER == 477

\* a manufacturer id of some other vendor
OTHER_MANUFACTURER == 76

\* the three cadence values parser.py imports from .const, scaled to
\* seconds that keep short interval < grace window < long interval
BRUSHING_UPDATE_INTERVAL_SECONDS == 1

TIMEOUT_RECENTLY_BRUSHING == 2

NOT_BRUSHING_UPDATE_INTERVAL_SECONDS == 3

\* characteristic identifiers, one opaque handle per imported name
CHARACTERISTIC_BATTERY_LEVEL == "CHARACTERISTIC_BATTERY_LEVEL"

CHARACTERISTIC_UPDATED_HANDLE_SESSION_STATE == "CHARACTERISTIC_UPDATED_HANDLE_SESSION_STATE"

CHARACTERISTIC_BRUSHING_TIME == "CHARACTERISTIC_BRUSHING_TIME"

CHARACTERISTIC_AVAILABLE_BRUSHING_ROUTINE_4080 == "CHARACTERISTIC_AVAILABLE_BRUSHING_ROUTINE_4080"

CHARACTERISTIC_ROUTINE_LENGTH == "CHARACTERISTIC_ROUTINE_LENGTH"

CHARACTERISTIC_INTENSITY == "CHARACTERISTIC_INTENSITY"

CHARACTERISTIC_LOADED_SESSION_ID == "CHARACTERISTIC_LOADED_SESSION_ID"

\* imported but never dispatched on: falls into the final else branch
CHARACTERISTIC_4030 == "CHARACTERISTIC_4030"

\* class SonicareSensor
SonicareSensor ==
    { "battery_level", "brushing_time", "handle_time", "handle_session_state",
      "brushing_session_id", "loaded_session_id", "intensity",
      "available_brushing_routine", "routine_length", "signal_strength" }

\* class SonicareBinarySensor
SonicareBinarySensor == { "brushing" }

\* DEVICE_TYPES[Models.HX6340].device_type
DEVICE_TYPES == [ HX6340 |-> [ device_type |-> "HX6340" ] ]

\* STATES
STATES ==
    [ n \in 0..7 |->
        CASE n = 0 -> "off"
          [] n = 1 -> "standby"
          [] n = 2 -> "brushing"
          [] n = 3 -> "charging"
          [] n = 4 -> "shutdown"
          [] n = 5 -> "validate"
          [] n = 6 -> "unknown6"
          [] n = 7 -> "unknown7" ]

(* ------------------------------ inputs --------------------------------- *)

\* an address is the list of its octets, each octet two hexadecimal digits
Addresses ==
    { << <<"a","a">>, <<"b","b">>, <<"c","c">>, <<"d","d">>, <<"e","e">>, <<"f","f">> >>,
      << <<"1","1">>, <<"2","2">>, <<"3","3">>, <<"4","4">>, <<"0","a">>, <<"9","F">> >> }

Zeros(n) == [ i \in 1..n |-> 0 ]

\* manufacturer_data of an advertisement: manufacturer id -> payload bytes
ManufacturerData ==
    { << >>,
      [ id \in {OTHER_MANUFACTURER} |-> Zeros(9) ],
      [ id \in {SONICARE_MANUFACTURER} |-> Zeros(8) ],
      [ id \in {SONICARE_MANUFACTURER} |-> Zeros(9) ],
      [ id \in {SONICARE_MANUFACTURER} |-> [ i \in 1..9 |-> i ] ],
      [ id \in {SONICARE_MANUFACTURER} |-> Zeros(999) ],
      [ id \in {SONICARE_MANUFACTURER, OTHER_MANUFACTURER} |-> Zeros(10) ] }

ServiceInfos == [ manufacturer_data : ManufacturerData, address : Addresses ]

\* raw characteristic values a read or a notification can deliver
RawValues == { << >>, <<2>>, <<80, 45>> }

\* the characteristics a device can expose, with their GATT properties
Characteristics ==
    { [ uuid |-> CHARACTERISTIC_BATTERY_LEVEL, properties |-> {"read", "notify"} ],
      [ uuid |-> CHARACTERISTIC_UPDATED_HANDLE_SESSION_STATE,
        properties |-> {"read", "indicate", "notify"} ],
      [ uuid |-> CHARACTERISTIC_4030, properties |-> {"indicate"} ] }

Range(s) == { s[i] : i \in DOMAIN s }

\* client.services: every duplicate-free enumeration of at most MaxChars
\* characteristics
Enumerations ==
    UNION { { s \in [1..n -> Characteristics] : Cardinality(Range(s)) = n }
            : n \in 0..MaxChars }

(* --------------------------- pure functions ---------------------------- *)

\* str.upper() on one hexadecimal digit
Upper(c) ==
    CASE c = "a" -> "A" [] c = "b" -> "B" [] c = "c" -> "C"
      [] c = "d" -> "D" [] c = "e" -> "E" [] c = "f" -> "F"
      [] OTHER -> c

\* bluetooth_data_tools.short_address: the last two octets, upper-cased and
\* joined without a separator
short_address(address) ==
    LET n == Len(address)
    IN  Upper(address[n-1][1]) \o Upper(address[n-1][2])
            \o Upper(address[n][1]) \o Upper(address[n][2])

\* one entry of the sensor map, as update_sensor stores it
Reading(unit, value, device_class, name) ==
    [ unit |-> unit, value |-> value, device_class |-> device_class, name |-> name ]

\* dict d with d[key] = value stored
Store(d, key, value) ==
    [ k \in DOMAIN d \cup {key} |-> IF k = key THEN value ELSE d[k] ]

\* BluetoothData.update_sensor(key, unit, value, device_class, name): the
\* entry of key is replaced, every other key is kept
update_sensor(s, key, unit, value, device_class, name) ==
    Store(s, key, Reading(unit, value, device_class, name))

\* outcome of a coroutine that touches the sensor map
Returned(s) == [ raised |-> FALSE, sensors |-> s ]

Raised(s) == [ raised |-> TRUE, sensors |-> s ]

\* a lookup whose default does not name the code
StateLabelNoDefault(n) ==
    IF n \in DOMAIN STATES THEN STATES[n] ELSE "unknown"

\* STATES.get(n, f"unknown state value {n}")
StateLabel(n) ==
    IF n \in DOMAIN STATES THEN STATES[n] ELSE "unknown state value " \o ToString(n)

\* process_characteristic_value that keeps a value already recorded for the
\* battery level
process_characteristic_value_keep_first(s, characteristic_uuid, value) ==
    IF characteristic_uuid = CHARACTERISTIC_BATTERY_LEVEL THEN
        IF value = << >> THEN [ raised |-> TRUE, sensors |-> s ]
        ELSE IF "battery_level" \in DOMAIN s THEN [ raised |-> FALSE, sensors |-> s ]
        ELSE [ raised |-> FALSE,
               sensors |-> [ k \in DOMAIN s \cup {"battery_level"} |->
                               IF k = "battery_level"
                               THEN [ unit |-> "%", value |-> value[1],
                                      device_class |-> "battery", name |-> "Battery" ]
                               ELSE s[k] ] ]
    ELSE IF characteristic_uuid = CHARACTERISTIC_UPDATED_HANDLE_SESSION_STATE THEN
        IF value = << >> THEN [ raised |-> TRUE, sensors |-> s ]
        ELSE [ raised |-> FALSE,
               sensors |-> [ k \in DOMAIN s \cup {"handle_session_state"} |->
                               IF k = "handle_session_state"
                               THEN [ unit |-> None,
                                      value |-> IF value[1] \in DOMAIN STATES
                                                THEN STATES[value[1]]
                                                ELSE "unknown state value "
                                                        \o ToString(value[1]),
                                      device_class |-> None,
                                      name |-> "Handle session state" ]
                               ELSE s[k] ] ]
    ELSE [ raised |-> FALSE, sensors |-> s ]

\* process_characteristic_value with three deviations to choose from: the
\* byte of the value a numeric characteristic stores (0 for the first, 1 for
\* the last), the key the brushing time is stored under, and whether an
\* empty value of an unknown characteristic raises
process_characteristic_value_with(s, characteristic_uuid, value, last, brushing_key,
                                  unknown_raises) ==
    LET byte == IF last = 1 THEN value[Len(value)] ELSE value[1]
    IN  IF characteristic_uuid = CHARACTERISTIC_BATTERY_LEVEL THEN
            IF value = << >> THEN Raised(s)
            ELSE Returned(update_sensor(s, "battery_level", "%", byte, "battery", "Battery"))
        ELSE IF characteristic_uuid = CHARACTERISTIC_UPDATED_HANDLE_SESSION_STATE THEN
            IF value = << >> THEN Raised(s)
            ELSE Returned(update_sensor(s, "handle_session_state", None,
                                        StateLabel(value[1]), None, "Handle session state"))
        ELSE IF characteristic_uuid = CHARACTERISTIC_BRUSHING_TIME THEN
            IF value = << >> THEN Raised(s)
            ELSE Returned(update_sensor(s, brushing_key, None, byte, None, "Brushing time"))
        ELSE IF characteristic_uuid = CHARACTERISTIC_AVAILABLE_BRUSHING_ROUTINE_4080 THEN
            IF value = << >> THEN Raised(s)
            ELSE Returned(update_sensor(s, "available_brushing_routine", None, byte, None,
                                        "Available brushing routine"))
        ELSE IF characteristic_uuid = CHARACTERISTIC_ROUTINE_LENGTH THEN
            IF value = << >> THEN Raised(s)
            ELSE Returned(update_sensor(s, "routine_length", None, byte, None,
                                        "Routine length"))
        ELSE IF characteristic_uuid = CHARACTERISTIC_INTENSITY THEN
            IF value = << >> THEN Raised(s)
            ELSE Returned(update_sensor(s, "intensity", None, byte, None, "Intensity"))
        ELSE IF characteristic_uuid = CHARACTERISTIC_LOADED_SESSION_ID THEN
            IF value = << >> THEN Raised(s)
            ELSE Returned(update_sensor(s, "loaded_session_id", None, byte, None,
                                        "Loaded session id"))
        ELSE IF unknown_raises /\ value = << >> THEN Raised(s)
        ELSE Returned(s)

\* process_characteristic_value that stores the last byte of a numeric value
process_characteristic_value_last_byte(s, characteristic_uuid, value) ==
    process_characteristic_value_with(s, characteristic_uuid, value, 1, "brushing_time", FALSE)

\* process_characteristic_value that indexes the value before it looks at
\* the characteristic
process_characteristic_value_index_first(s, characteristic_uuid, value) ==
    process_characteristic_value_with(s, characteristic_uuid, value, 0, "brushing_time", TRUE)

\* process_characteristic_value that stores the brushing time under the key
\* of the battery level
process_characteristic_value_wrong_key(s, characteristic_uuid, value) ==
    process_characteristic_value_with(s, characteristic_uuid, value, 0, "battery_level", FALSE)

\* process_characteristic_value(characteristic_uuid, value) on sensor map s;
\* value[0] of an empty value raises IndexError before anything is stored
process_characteristic_value(s, characteristic_uuid, value) ==
    IF characteristic_uuid = CHARACTERISTIC_BATTERY_LEVEL THEN
        IF value = << >> THEN Raised(s)
        ELSE Returned(update_sensor(s, "battery_level", "%", value[1], "battery", "Battery"))
    ELSE IF characteristic_uuid = CHARACTERISTIC_UPDATED_HANDLE_SESSION_STATE THEN
        IF value = << >> THEN Raised(s)
        ELSE Returned(update_sensor(s, "handle_session_state", None,
                                    StateLabel(value[1]), None, "Handle session state"))
    ELSE IF characteristic_uuid = CHARACTERISTIC_BRUSHING_TIME THEN
        IF value = << >> THEN Raised(s)
        ELSE Returned(update_sensor(s, "brushing_time", None, value[1], None, "Brushing time"))
    ELSE IF characteristic_uuid = CHARACTERISTIC_AVAILABLE_BRUSHING_ROUTINE_4080 THEN
        IF value = << >> THEN Raised(s)
        ELSE Returned(update_sensor(s, "available_brushing_routine", None, value[1], None,
                                    "Available brushing routine"))
    ELSE IF characteristic_uuid = CHARACTERISTIC_ROUTINE_LENGTH THEN
        IF value = << >> THEN Raised(s)
        ELSE Returned(update_sensor(s, "routine_length", None, value[1], None, "Routine length"))
    ELSE IF characteristic_uuid = CHARACTERISTIC_INTENSITY THEN
        IF value = << >> THEN Raised(s)
        ELSE Returned(update_sensor(s, "intensity", None, value[1], None, "Intensity"))
    ELSE IF characteristic_uuid = CHARACTERISTIC_LOADED_SESSION_ID THEN
        IF value = << >> THEN Raised(s)
        ELSE Returned(update_sensor(s, "loaded_session_id", None, value[1], None,
                                    "Loaded session id"))
    ELSE Returned(s)

\* a callback that handles the handle session state alone
_async_handle_handle_state_only(s, characteristic_uuid, data) ==
    IF characteristic_uuid = CHARACTERISTIC_UPDATED_HANDLE_SESSION_STATE
    THEN process_characteristic_value(s, characteristic_uuid, data)
    ELSE Returned(s)

\* _async_handle_handle_state(characteristic, data): the notification
\* callback forwards to process_characteristic_value
_async_handle_handle_state(s, characteristic_uuid, data) ==
    process_characteristic_value(s, characteristic_uuid, data)

\* _start_update without the length check
_start_update_any_length(d, service_info) ==
    IF SONICARE_MANUFACTURER \notin DOMAIN service_info.manufacturer_data THEN d
    ELSE LET name == DEVICE_TYPES.HX6340.device_type \o " "
                        \o short_address(service_info.address)
         IN  [ manufacturer |-> "Philips Sonicare",
               device_type |-> DEVICE_TYPES.HX6340.device_type,
               name |-> name, title |-> name ]

\* _start_update that accepts 9 bytes only
_start_update_nine_only(d, service_info) ==
    IF SONICARE_MANUFACTURER \notin DOMAIN service_info.manufacturer_data THEN d
    ELSE IF Len(service_info.manufacturer_data[SONICARE_MANUFACTURER]) # 9
         THEN [ d EXCEPT !.manufacturer = "Philips Sonicare" ]
         ELSE LET name == DEVICE_TYPES.HX6340.device_type \o " "
                             \o short_address(service_info.address)
              IN  [ manufacturer |-> "Philips Sonicare",
                    device_type |-> DEVICE_TYPES.HX6340.device_type,
                    name |-> name, title |-> name ]

\* _start_update(service_info) on the identity fields d
_start_update(d, service_info) ==
    LET manufacturer_data == service_info.manufacturer_data
        address == service_info.address
    IN  IF SONICARE_MANUFACTURER \notin DOMAIN manufacturer_data THEN d
        ELSE
          LET data == manufacturer_data[SONICARE_MANUFACTURER]
              d1 == [ d EXCEPT !.manufacturer = "Philips Sonicare" ]
              msg_length == Len(data)
          IN  IF msg_length \notin {9, 999} THEN d1
              ELSE
                LET model_info == DEVICE_TYPES.HX6340
                    name == model_info.device_type \o " " \o short_address(address)
                IN  [ d1 EXCEPT !.device_type = model_info.device_type,
                                !.name = name,
                                !.title = name ]

\* poll_needed with the recent-brushing window exclusive of its boundary
poll_needed_exclusive(last_poll, brushing, last_brush, monotonic) ==
    IF last_poll = Nothing THEN TRUE
    ELSE
      LET update_interval ==
            IF brushing \/ monotonic - last_brush < TIMEOUT_RECENTLY_BRUSHING
            THEN BRUSHING_UPDATE_INTERVAL_SECONDS
            ELSE NOT_BRUSHING_UPDATE_INTERVAL_SECONDS
      IN  last_poll[1] > update_interval

\* poll_needed with a missing last_poll taken for zero seconds
poll_needed_none_is_zero(last_poll, brushing, last_brush, monotonic) ==
    LET update_interval ==
          IF brushing \/ monotonic - last_brush <= TIMEOUT_RECENTLY_BRUSHING
          THEN BRUSHING_UPDATE_INTERVAL_SECONDS
          ELSE NOT_BRUSHING_UPDATE_INTERVAL_SECONDS
    IN  (IF last_poll = Nothing THEN 0 ELSE last_poll[1]) > update_interval

\* poll_needed(service_info, last_poll) given self._brushing,
\* self._last_brush and the value time.monotonic() returns
poll_needed(last_poll, brushing, last_brush, monotonic) ==
    IF last_poll = Nothing THEN TRUE
    ELSE
      LET update_interval ==
            IF brushing \/ monotonic - last_brush <= TIMEOUT_RECENTLY_BRUSHING
            THEN BRUSHING_UPDATE_INTERVAL_SECONDS
            ELSE NOT_BRUSHING_UPDATE_INTERVAL_SECONDS
      IN  last_poll[1] > update_interval

\* BluetoothData._finish_update(): the sensor update built from the
\* accumulator
_finish_update(d, s, b) ==
    [ title |-> d.title, device |-> d, entity_values |-> s, binary_entity_values |-> b ]

\* the uuids process_characteristic_value dispatches on
DispatchedUuids ==
    { CHARACTERISTIC_BATTERY_LEVEL, CHARACTERISTIC_UPDATED_HANDLE_SESSION_STATE,
      CHARACTERISTIC_BRUSHING_TIME, CHARACTERISTIC_AVAILABLE_BRUSHING_ROUTINE_4080,
      CHARACTERISTIC_ROUTINE_LENGTH, CHARACTERISTIC_INTENSITY,
      CHARACTERISTIC_LOADED_SESSION_ID }

(* ---------------------- position inside async_poll --------------------- *)

\* the next suspension point at or after phase ph (1 read, 2 indicate,
\* 3 notify) of characteristic i: the body of the for loop skips every step
\* whose property the characteristic lacks
RECURSIVE NextAwait(_, _, _)
NextAwait(cs, i, ph) ==
    IF i > Len(cs) THEN [ pc |-> "return", idx |-> i ]
    ELSE IF ph = 1 THEN
        IF "read" \in cs[i].properties
        THEN [ pc |-> "read_gatt_char", idx |-> i ] ELSE NextAwait(cs, i, 2)
    ELSE IF ph = 2 THEN
        IF "indicate" \in cs[i].properties
        THEN [ pc |-> "start_notify_indicate", idx |-> i ] ELSE NextAwait(cs, i, 3)
    ELSE
        IF "notify" \in cs[i].properties
        THEN [ pc |-> "start_notify_notify", idx |-> i ] ELSE NextAwait(cs, i + 1, 1)

\* a read that ends the loop body: the subscriptions hang on an else branch
AfterReadNextCharacteristic(cs, i) == NextAwait(cs, i + 1, 1)

\* after the read value was processed: the "indicate" test
AfterRead(cs, i) == NextAwait(cs, i, 2)

\* after the indicate subscription: the "notify" test
AfterIndicate(cs, i) == NextAwait(cs, i, 3)

\* a notify subscription after which the same characteristic is taken again
AfterNotifySameCharacteristic(cs, i) == NextAwait(cs, i, 1)

\* after the notify subscription: the next characteristic
AfterNotify(cs, i) == NextAwait(cs, i + 1, 1)

\* an exception that leaves the loop instead of the loop body
AfterExceptionLeavesLoop(cs, i) == [ pc |-> "return", idx |-> Len(cs) + 1 ]

\* except Exception: log, then the next characteristic
AfterException(cs, i) == NextAwait(cs, i + 1, 1)

(* ------------------------------- state --------------------------------- *)

VARIABLES
    device,          \* identity fields of the accumulator (set_device_*, set_title)
    sensors,         \* dict: sensor key -> latest reading
    binary_sensors,  \* dict: binary sensor key -> latest value
    _brushing,       \* self._brushing
    _last_brush,     \* self._last_brush
    pc,              \* where async_poll is suspended, "idle" when not running
    chars,           \* the characteristics client.services enumerates
    idx,             \* index of the characteristic the loop is at
    log,             \* transport calls issued by the running or last poll
    subscribed,      \* uuids with a start_notify that returned
    result,          \* how the last async_poll call ended
    snapshot,        \* Some(what the last completed async_poll returned)
    lastOp,          \* the operation performed last, with its arguments
    lastSample       \* dict: dispatched uuid -> raw value last processed without raising

vars == << device, sensors, binary_sensors, _brushing, _last_brush, pc, chars,
           idx, log, subscribed, result, snapshot, lastOp, lastSample >>

accumulator == << device, sensors, binary_sensors >>

cadence == << _brushing, _last_brush >>

poll == << pc, chars, idx, log, subscribed, result, snapshot >>

\* SonicareBluetoothDeviceData.__init__
Init ==
    /\ device = [ manufacturer |-> None, device_type |-> None, name |-> None,
                  title |-> None ]
    /\ sensors = EmptyDict
    /\ binary_sensors = EmptyDict
    /\ _brushing = FALSE
    /\ _last_brush = 0
    /\ pc = "idle"
    /\ chars = << >>
    /\ idx = 0
    /\ log = << >>
    /\ subscribed = {}
    /\ result = None
    /\ snapshot = Nothing
    /\ lastOp = [ op |-> "__init__" ]
    /\ lastSample = EmptyDict

(* ------------------------------ actions -------------------------------- *)

\* an advertisement out of infos is handed to _start_update
StartUpdate(infos) ==
    \E service_info \in infos :
        /\ device' = _start_update(device, service_info)
        /\ lastOp' = [ op |-> "_start_update", service_info |-> service_info ]
        /\ UNCHANGED << sensors, binary_sensors, cadence, poll, lastSample >>

\* the scheduler asks poll_needed with last_poll out of polls while
\* time.monotonic() returns a value out of clock
PollNeeded(polls, clock) ==
    \E last_poll \in polls, monotonic \in clock :
        /\ lastOp' = [ op |-> "poll_needed", last_poll |-> last_poll,
                       monotonic |-> monotonic,
                       ret |-> poll_needed(last_poll, _brushing, _last_brush, monotonic) ]
        /\ UNCHANGED << accumulator, cadence, poll, lastSample >>

\* a return whose snapshot starts from an empty sensor map
GotoFreshSnapshot(pos, s) ==
    IF pos.pc = "return"
    THEN /\ pc' = "idle"
         /\ idx' = 0
         /\ result' = "returned"
         /\ snapshot' = Some(_finish_update(device, EmptyDict, binary_sensors))
    ELSE /\ pc' = pos.pc
         /\ idx' = pos.idx
         /\ UNCHANGED << result, snapshot >>

\* async_poll moves to position pos with sensor map s; a position past
\* the last characteristic is "return self._finish_update()"
Goto(pos, s) ==
    IF pos.pc = "return"
    THEN /\ pc' = "idle"
         /\ idx' = 0
         /\ result' = "returned"
         /\ snapshot' = Some(_finish_update(device, s, binary_sensors))
    ELSE /\ pc' = pos.pc
         /\ idx' = pos.idx
         /\ UNCHANGED << result, snapshot >>

\* async_poll is called and suspends in establish_connection
AsyncPoll ==
    /\ pc = "idle"
    /\ pc' = "establish_connection"
    /\ chars' = << >>
    /\ idx' = 0
    /\ log' = << >>
    /\ result' = "pending"
    /\ lastOp' = [ op |-> "async_poll" ]
    /\ UNCHANGED << accumulator, cadence, subscribed, snapshot, lastSample >>

\* a connection failure that is swallowed: async_poll returns a snapshot
EstablishConnectionRaisesSwallowed ==
    /\ pc = "establish_connection"
    /\ pc' = "idle"
    /\ result' = "returned"
    /\ snapshot' = Some(_finish_update(device, sensors, binary_sensors))
    /\ lastOp' = [ op |-> "establish_connection", raised |-> TRUE ]
    /\ UNCHANGED << accumulator, cadence, chars, idx, log, subscribed, lastSample >>

\* establish_connection raises: the exception leaves async_poll
EstablishConnectionRaises ==
    /\ pc = "establish_connection"
    /\ pc' = "idle"
    /\ result' = "raised"
    /\ lastOp' = [ op |-> "establish_connection", raised |-> TRUE ]
    /\ UNCHANGED << accumulator, cadence, chars, idx, log, subscribed, snapshot,
                    lastSample >>

\* establish_connection returns a client whose services enumerate one of
\* enumerations
EstablishConnectionReturns(enumerations) ==
    /\ pc = "establish_connection"
    /\ \E cs \in enumerations :
        /\ chars' = cs
        /\ Goto(NextAwait(cs, 1, 1), sensors)
    /\ lastOp' = [ op |-> "establish_connection", raised |-> FALSE ]
    /\ UNCHANGED << accumulator, cadence, log, subscribed, lastSample >>

Call(call, property, i, value, outcome) ==
    [ call |-> call, property |-> property, idx |-> i, value |-> value,
      outcome |-> outcome ]

\* client.read_gatt_char raises
ReadRaises ==
    /\ pc = "read_gatt_char"
    /\ log' = Append(log, Call("read_gatt_char", "read", idx, Nothing, "raised"))
    /\ Goto(AfterException(chars, idx), sensors)
    /\ lastOp' = [ op |-> "read_gatt_char", uuid |-> chars[idx].uuid, value |-> Nothing,
                   raised |-> TRUE ]
    /\ UNCHANGED << accumulator, cadence, chars, subscribed, lastSample >>

\* client.read_gatt_char returns value, which is processed at once
ReadReturns ==
    /\ pc = "read_gatt_char"
    /\ \E value \in RawValues :
        LET uuid == chars[idx].uuid
            r == process_characteristic_value(sensors, uuid, value)
        IN  /\ sensors' = r.sensors
            /\ log' = Append(log, Call("read_gatt_char", "read", idx, value,
                                       IF r.raised THEN "decode_raised" ELSE "returned"))
            /\ Goto(IF r.raised THEN AfterException(chars, idx) ELSE AfterRead(chars, idx),
                    r.sensors)
            /\ lastSample' = IF r.raised \/ uuid \notin DispatchedUuids THEN lastSample
                             ELSE Store(lastSample, uuid, value)
            /\ lastOp' = [ op |-> "read_gatt_char", uuid |-> uuid, value |-> value,
                           raised |-> r.raised ]
    /\ UNCHANGED << device, binary_sensors, cadence, chars, subscribed >>

\* client.start_notify for the "indicate" property
StartNotifyIndicate ==
    /\ pc = "start_notify_indicate"
    /\ \E ok \in BOOLEAN :
        /\ log' = Append(log, Call("start_notify", "indicate", idx, Nothing,
                                   IF ok THEN "returned" ELSE "raised"))
        /\ subscribed' = IF ok THEN subscribed \cup {chars[idx].uuid} ELSE subscribed
        /\ Goto(IF ok THEN AfterIndicate(chars, idx) ELSE AfterException(chars, idx),
                sensors)
        /\ lastOp' = [ op |-> "start_notify", uuid |-> chars[idx].uuid, raised |-> ~ok ]
    /\ UNCHANGED << accumulator, cadence, chars, lastSample >>

\* client.start_notify for the "notify" property
StartNotifyNotify ==
    /\ pc = "start_notify_notify"
    /\ \E ok \in BOOLEAN :
        /\ log' = Append(log, Call("start_notify", "notify", idx, Nothing,
                                   IF ok THEN "returned" ELSE "raised"))
        /\ subscribed' = IF ok THEN subscribed \cup {chars[idx].uuid} ELSE subscribed
        /\ Goto(IF ok THEN AfterNotify(chars, idx) ELSE AfterException(chars, idx),
                sensors)
        /\ lastOp' = [ op |-> "start_notify", uuid |-> chars[idx].uuid, raised |-> ~ok ]
    /\ UNCHANGED << accumulator, cadence, chars, lastSample >>

\* a callback that also records the "brushing" binary sensor from the handle
\* session state
NotificationRecordsBrushing ==
    \E uuid \in subscribed, data \in RawValues :
        LET r == _async_handle_handle_state(sensors, uuid, data)
        IN  /\ sensors' = r.sensors
            /\ binary_sensors' =
                  IF uuid = CHARACTERISTIC_UPDATED_HANDLE_SESSION_STATE /\ ~r.raised
                  THEN Store(binary_sensors, "brushing", data[1] = 2)
                  ELSE binary_sensors
            /\ lastSample' = IF r.raised \/ uuid \notin DispatchedUuids THEN lastSample
                             ELSE Store(lastSample, uuid, data)
            /\ lastOp' = [ op |-> "notification", uuid |-> uuid, value |-> data,
                           raised |-> r.raised ]
            /\ UNCHANGED << device, cadence, poll >>

\* the transport delivers a notification of a subscribed characteristic to
\* the callback, while async_poll is suspended or after it returned
Notification ==
    \E uuid \in subscribed, data \in RawValues :
        LET r == _async_handle_handle_state(sensors, uuid, data)
        IN  /\ sensors' = r.sensors
            /\ lastSample' = IF r.raised \/ uuid \notin DispatchedUuids THEN lastSample
                             ELSE Store(lastSample, uuid, data)
            /\ lastOp' = [ op |-> "notification", uuid |-> uuid, value |-> data,
                           raised |-> r.raised ]
            /\ UNCHANGED << device, binary_sensors, cadence, poll >>

\* the values poll_needed can be handed
LastPolls == {Nothing} \cup { Some(n) : n \in 0..MaxLastPoll }

\* the poll cycle in full: every enumeration, every transport outcome and
\* notifications at any time
Next ==
    \/ AsyncPoll
    \/ EstablishConnectionRaises
    \/ EstablishConnectionReturns(Enumerations)
    \/ ReadRaises
    \/ ReadReturns
    \/ StartNotifyIndicate
    \/ StartNotifyNotify
    \/ Notification

Spec == Init /\ [][Next]_vars

\* a device that exposes nothing, or the handle session state alone
FewEnumerations ==
    { cs \in Enumerations :
        \A i \in DOMAIN cs : cs[i].uuid = CHARACTERISTIC_UPDATED_HANDLE_SESSION_STATE }

\* every advertisement and every cadence query, among polls of a small device
NextPassive ==
    \/ StartUpdate(ServiceInfos)
    \/ PollNeeded(LastPolls, 0..MaxTime)
    \/ AsyncPoll
    \/ EstablishConnectionRaises
    \/ EstablishConnectionReturns(FewEnumerations)
    \/ ReadRaises
    \/ ReadReturns
    \/ StartNotifyIndicate
    \/ StartNotifyNotify
    \/ Notification

SpecPassive == Init /\ [][NextPassive]_vars

(* ------------------------ vocabulary of the claims ---------------------- *)

HANDLE_SESSION_STATE == CHARACTERISTIC_UPDATED_HANDLE_SESSION_STATE

\* the sensor key a known characteristic is documented to feed
KeyOf(uuid) ==
    CASE uuid = CHARACTERISTIC_BATTERY_LEVEL -> "battery_level"
      [] uuid = HANDLE_SESSION_STATE -> "handle_session_state"
      [] uuid = CHARACTERISTIC_BRUSHING_TIME -> "brushing_time"
      [] uuid = CHARACTERISTIC_AVAILABLE_BRUSHING_ROUTINE_4080 -> "available_brushing_routine"
      [] uuid = CHARACTERISTIC_ROUTINE_LENGTH -> "routine_length"
      [] uuid = CHARACTERISTIC_INTENSITY -> "intensity"
      [] uuid = CHARACTERISTIC_LOADED_SESSION_ID -> "loaded_session_id"

\* the value a non-empty raw sample of a known characteristic stands for
ValueOf(uuid, raw) ==
    IF uuid = HANDLE_SESSION_STATE
    THEN IF raw[1] = 2 THEN "brushing" ELSE StateLabel(raw[1])
    ELSE raw[1]

InPoll == pc \in { "read_gatt_char", "start_notify_indicate", "start_notify_notify" }

PollOps == { "establish_connection", "read_gatt_char", "start_notify" }

\* async_poll has returned and nothing happened since
JustReturned == pc = "idle" /\ result = "returned" /\ lastOp.op \in PollOps

Called(j, property) ==
    \E k \in DOMAIN log : log[k].idx = j /\ log[k].property = property

Failed(j, property) ==
    \E k \in DOMAIN log :
        log[k].idx = j /\ log[k].property = property /\ log[k].outcome # "returned"

\* the first transport call the loop body makes for characteristic c
FirstProperty(c) ==
    IF "read" \in c.properties THEN "read"
    ELSE IF "indicate" \in c.properties THEN "indicate" ELSE "notify"

Visited(j) == Called(j, FirstProperty(chars[j]))

PollStep == ReadRaises \/ ReadReturns \/ StartNotifyIndicate \/ StartNotifyNotify

(* -------------------------------- C1 ------------------------------------ *)

C1_State ==
    \* only the connection attempt can make the poll fail
    /\ result = "raised" => log = << >> /\ chars = << >>
    \* the loop never skips a characteristic
    /\ InPoll => idx \in 1..Len(chars) /\ \A j \in 1..(idx - 1) : Visited(j)
    \* a connected poll ends with every characteristic visited and a snapshot
    /\ (pc = "idle" /\ result = "returned") =>
          snapshot # Nothing /\ \A j \in 1..Len(chars) : Visited(j)
    \* the snapshot is the accumulator at the return, and holds every value
    \* read in this cycle that no notification has overwritten since
    /\ JustReturned =>
          /\ snapshot = Some(_finish_update(device, sensors, binary_sensors))
          /\ \A k \in DOMAIN log :
                LET uuid == chars[log[k].idx].uuid
                IN  ( /\ log[k].property = "read"
                      /\ log[k].outcome = "returned"
                      /\ uuid \in DispatchedUuids
                      /\ uuid \in DOMAIN lastSample
                      /\ lastSample[uuid] = log[k].value )
                    => /\ KeyOf(uuid) \in DOMAIN snapshot[1].entity_values
                       /\ snapshot[1].entity_values[KeyOf(uuid)].value
                            = ValueOf(uuid, log[k].value)

C1_Step ==
    \* a suspended poll can always go on
    /\ InPoll => ENABLED PollStep
    \* a transport call or a decoding that raises records nothing: the
    \* reading stays absent or keeps its previous value
    /\ ( /\ Len(log') = Len(log) + 1
         /\ log'[Len(log')].outcome # "returned" )
       => /\ UNCHANGED accumulator
          /\ (pc' \in { "read_gatt_char", "start_notify_indicate", "start_notify_notify" }
                => idx' > idx)

\* C1: fault isolation in async_poll. Once the connection is established,
\* whatever the enumeration and whichever reads, subscriptions or decodings
\* raise, the loop visits every later characteristic and the poll returns a
\* snapshot; a failure records nothing (the reading stays absent or keeps
\* its previous value) while the values read elsewhere reach the snapshot,
\* e.g. handle_session_state = "brushing" after a failed battery read.
C1_FaultIsolation == [][ C1_Step /\ C1_State' ]_vars

\* a poll that returned although the battery read raised, with the later
\* handle-session-state read of [2] in the snapshot as "brushing"
C1_Witness ==
    /\ JustReturned
    /\ Len(chars) = 2
    /\ chars[1].uuid = CHARACTERISTIC_BATTERY_LEVEL
    /\ chars[2].uuid = HANDLE_SESSION_STATE
    /\ \E k \in DOMAIN log :
          log[k].idx = 1 /\ log[k].property = "read" /\ log[k].outcome = "raised"
    /\ \E k \in DOMAIN log :
          log[k].idx = 2 /\ log[k].property = "read" /\ log[k].value = <<2>>
    /\ "handle_session_state" \in DOMAIN snapshot[1].entity_values
    /\ snapshot[1].entity_values["handle_session_state"].value = "brushing"
    /\ "battery_level" \notin DOMAIN snapshot[1].entity_values

(* -------------------------------- C2 ------------------------------------ *)

\* C2: the poll-cadence state follows the decoded handle-session-state
\* readings: while the latest recorded handle session state is "brushing"
\* self._brushing is true, and while it is any other state self._brushing
\* is false.
C2_CadenceFollowsHandleState ==
    "handle_session_state" \in DOMAIN sensors =>
        (_brushing <=> sensors["handle_session_state"].value = "brushing")

(* -------------------------------- C3 ------------------------------------ *)

\* the interval the cadence policy selects when time.monotonic() returns m
SelectedInterval(m) ==
    IF _brushing \/ m - _last_brush <= TIMEOUT_RECENTLY_BRUSHING
    THEN BRUSHING_UPDATE_INTERVAL_SECONDS
    ELSE NOT_BRUSHING_UPDATE_INTERVAL_SECONDS

\* C3 as stated: with last_poll present, poll_needed returns true iff
\* (now - last_poll) > the selected interval, last_poll being a timestamp.
C3_DueByTimestamp ==
    (lastOp.op = "poll_needed" /\ lastOp.last_poll # Nothing) =>
        ( lastOp.ret <=>
            lastOp.monotonic - lastOp.last_poll[1] > SelectedInterval(lastOp.monotonic) )

\* C3 as amended: with last_poll present, poll_needed selects the brushing
\* interval iff self._brushing or time.monotonic() - self._last_brush <=
\* TIMEOUT_RECENTLY_BRUSHING (inclusive), the idle interval otherwise, and
\* returns true iff last_poll itself, the seconds since the last poll as the
\* caller passes them, is > the selected interval (strict).
C3_DueByElapsed ==
    (lastOp.op = "poll_needed" /\ lastOp.last_poll # Nothing) =>
        ( lastOp.ret <=> lastOp.last_poll[1] > SelectedInterval(lastOp.monotonic) )

\* the inclusive boundary: not brushing, monotonic - _last_brush exactly the
\* timeout, and a last_poll between the two intervals is due
C3_Witness ==
    /\ lastOp.op = "poll_needed"
    /\ ~_brushing
    /\ lastOp.monotonic - _last_brush = TIMEOUT_RECENTLY_BRUSHING
    /\ lastOp.last_poll = Some(BRUSHING_UPDATE_INTERVAL_SECONDS + 1)
    /\ lastOp.ret

(* -------------------------------- C4 ------------------------------------ *)

\* C4: with last_poll None (never polled) poll_needed returns true, whatever
\* the brushing flag, the last-brushing time and the clock are.
C4_NeverPolledIsDue ==
    (lastOp.op = "poll_needed" /\ lastOp.last_poll = Nothing) => lastOp.ret

\* never polled, long after the recent-brushing window: due
C4_Witness ==
    /\ lastOp.op = "poll_needed"
    /\ lastOp.last_poll = Nothing
    /\ lastOp.monotonic - _last_brush > TIMEOUT_RECENTLY_BRUSHING
    /\ lastOp.ret

(* ----------------------------- C5 and C6 -------------------------------- *)

HasSonicare(service_info) ==
    SONICARE_MANUFACTURER \in DOMAIN service_info.manufacturer_data

\* manufacturer ID 477 present with a payload of exactly 9 or 999 bytes
Accepted(service_info) ==
    /\ HasSonicare(service_info)
    /\ Len(service_info.manufacturer_data[SONICARE_MANUFACTURER]) \in {9, 999}

\* C5 as stated: an advertisement without manufacturer ID 477, or with a
\* payload of another length than 9 or 999, leaves the whole accumulator
\* unchanged.
C5_RejectedIsInert ==
    [][ (lastOp'.op = "_start_update" /\ ~Accepted(lastOp'.service_info))
          => UNCHANGED accumulator ]_vars

\* C5 as amended: an advertisement without manufacturer ID 477 leaves the
\* whole accumulator unchanged; one with manufacturer ID 477 and a payload of
\* another length than 9 or 999 sets the device manufacturer to "Philips
\* Sonicare" and leaves everything else (device type, name, title, every
\* reading) unchanged.
C5_RejectedSetsManufacturerOnly ==
    [][ (lastOp'.op = "_start_update" /\ ~Accepted(lastOp'.service_info))
          => /\ UNCHANGED << sensors, binary_sensors >>
             /\ device'.device_type = device.device_type
             /\ device'.name = device.name
             /\ device'.title = device.title
             /\ device'.manufacturer =
                  IF HasSonicare(lastOp'.service_info) THEN "Philips Sonicare"
                  ELSE device.manufacturer ]_vars

\* a first advertisement with manufacturer ID 477 and 8 bytes: no type, name
\* or title, but the manufacturer is written; a reading is already held
C5_Witness ==
    /\ lastOp.op = "_start_update"
    /\ HasSonicare(lastOp.service_info)
    /\ Len(lastOp.service_info.manufacturer_data[SONICARE_MANUFACTURER]) = 8
    /\ device.manufacturer = "Philips Sonicare"
    /\ device.device_type = None
    /\ device.title = None
    /\ DOMAIN sensors # {}

\* C6: an accepted advertisement (manufacturer ID 477, payload of 9 or 999
\* bytes, any content) sets the model "HX6340" and sets device name and title
\* both to "HX6340 " followed by the short form of the address, whatever was
\* advertised before: the same address gives the same title every time.
C6_AcceptedSetsIdentity ==
    (lastOp.op = "_start_update" /\ Accepted(lastOp.service_info)) =>
        /\ device.device_type = "HX6340"
        /\ device.name = "HX6340 " \o short_address(lastOp.service_info.address)
        /\ device.title = device.name
        /\ (lastOp.service_info.address[5] = <<"e","e">>
              /\ lastOp.service_info.address[6] = <<"f","f">>)
            => device.title = "HX6340 EEFF"

\* a 999-byte advertisement from aa:bb:cc:dd:ee:ff, titled "HX6340 EEFF"
C6_Witness ==
    /\ lastOp.op = "_start_update"
    /\ HasSonicare(lastOp.service_info)
    /\ Len(lastOp.service_info.manufacturer_data[SONICARE_MANUFACTURER]) = 999
    /\ device.device_type = "HX6340"
    /\ device.title = "HX6340 EEFF"

(* -------------------------------- C7 ------------------------------------ *)

\* C7: when establish_connection raises, async_poll raises: no read or
\* subscribe call is issued, no snapshot is returned (the caller keeps what
\* it had), and accumulator and subscriptions stay as they were.
C7_ConnectionFailureIsHard ==
    [][ (lastOp'.op = "establish_connection" /\ lastOp'.raised)
          => /\ pc = "establish_connection"
             /\ pc' = "idle"
             /\ result' = "raised"
             /\ log' = << >>
             /\ UNCHANGED << accumulator, cadence, subscribed, snapshot >> ]_vars

\* a failed connection attempt of a device that holds identity, a reading and
\* an earlier snapshot
C7_Witness ==
    /\ lastOp.op = "establish_connection"
    /\ lastOp.raised
    /\ result = "raised"
    /\ device.title # None
    /\ DOMAIN sensors # {}
    /\ snapshot # Nothing

(* -------------------------------- C8 ------------------------------------ *)

\* C8: a notification of a subscribed characteristic, delivered while
\* async_poll is suspended or after it returned, is processed exactly as a
\* one-shot read of the same value is (a known characteristic's value is
\* stored under its key, nothing else changes, the poll is not disturbed),
\* and the snapshot of the next return shows, for every key, the value of
\* the sample processed last, notified samples included.
C8_NotificationIsRecorded ==
    [][ /\ lastOp'.op = "notification" =>
            /\ lastOp'.uuid \in subscribed
            /\ sensors' = process_characteristic_value(sensors, lastOp'.uuid,
                                                       lastOp'.value).sensors
            /\ (lastOp'.uuid \in DispatchedUuids /\ lastOp'.value # << >>) =>
                  /\ KeyOf(lastOp'.uuid) \in DOMAIN sensors'
                  /\ sensors'[KeyOf(lastOp'.uuid)].value
                        = ValueOf(lastOp'.uuid, lastOp'.value)
            /\ UNCHANGED << device, binary_sensors, cadence, poll >>
        /\ JustReturned' =>
            \A uuid \in DOMAIN lastSample' :
                /\ KeyOf(uuid) \in DOMAIN snapshot'[1].entity_values
                /\ snapshot'[1].entity_values[KeyOf(uuid)].value
                      = ValueOf(uuid, lastSample'[uuid]) ]_vars

\* a battery notification of [80, 45] after async_poll returned a snapshot
\* without that value: the accumulator holds 80 for the next finalize
C8_Witness ==
    /\ lastOp.op = "notification"
    /\ lastOp.uuid = CHARACTERISTIC_BATTERY_LEVEL
    /\ lastOp.value = <<80, 45>>
    /\ pc = "idle"
    /\ result = "returned"
    /\ "battery_level" \in DOMAIN sensors
    /\ sensors["battery_level"].value = 80
    /\ \/ "battery_level" \notin DOMAIN snapshot[1].entity_values
       \/ snapshot[1].entity_values["battery_level"].value = 2

(* -------------------------------- C9 ------------------------------------ *)

Subscribable(c) == "indicate" \in c.properties \/ "notify" \in c.properties

\* C9 as stated: in a poll that returned, every characteristic with the read
\* property was read, and every characteristic with the indicate or the
\* notify property had a subscribe call, whether or not its read succeeded.
C9_SubscribedRegardlessOfRead ==
    (pc = "idle" /\ result = "returned") =>
        \A j \in 1..Len(chars) :
            /\ "read" \in chars[j].properties => Called(j, "read")
            /\ Subscribable(chars[j]) => (Called(j, "indicate") \/ Called(j, "notify"))

\* C9 as amended: in a poll that returned, every characteristic with the
\* read property was read; its indicate subscription was issued iff it has
\* the indicate property and its read (transport call and decoding) did not
\* raise; its notify subscription was issued iff it has the notify property
\* and neither its read nor its indicate subscription raised. The first
\* exception in a characteristic's steps skips the rest of that
\* characteristic only.
C9_SubscribedUnlessEarlierStepRaised ==
    (pc = "idle" /\ result = "returned") =>
        \A j \in 1..Len(chars) :
            LET c == chars[j]
            IN  /\ Called(j, "read") <=> "read" \in c.properties
                /\ Called(j, "indicate") <=>
                      ("indicate" \in c.properties /\ ~Failed(j, "read"))
                /\ Called(j, "notify") <=>
                      ( /\ "notify" \in c.properties
                        /\ ~Failed(j, "read")
                        /\ ~Failed(j, "indicate") )

\* a returned poll whose first characteristic supports read and notify, had
\* its read raise and got no subscribe call, with the second one processed
C9_Witness ==
    /\ pc = "idle"
    /\ result = "returned"
    /\ Len(chars) = 2
    /\ chars[1].properties = {"read", "notify"}
    /\ Failed(1, "read")
    /\ ~Called(1, "notify")
    /\ Called(2, "read")
    /\ Called(2, "indicate")
    /\ Called(2, "notify")

(* -------------------------------- C10 ----------------------------------- *)

\* C10: latest wins per sensor key. The sensor map holds exactly the keys of
\* the characteristics a sample was recorded for, and under each key the
\* value of the sample recorded last for it, from a read or a notification.
C10_LatestWins ==
    /\ DOMAIN sensors = { KeyOf(uuid) : uuid \in DOMAIN lastSample }
    /\ \A uuid \in DOMAIN lastSample :
          sensors[KeyOf(uuid)].value = ValueOf(uuid, lastSample[uuid])

\* battery recorded as 2 and returned in a snapshot, then recorded as 80
C10_Witness ==
    /\ snapshot # Nothing
    /\ "battery_level" \in DOMAIN snapshot[1].entity_values
    /\ snapshot[1].entity_values["battery_level"].value = 2
    /\ lastOp.op \in { "read_gatt_char", "notification" }
    /\ lastOp.uuid = CHARACTERISTIC_BATTERY_LEVEL
    /\ lastOp.value = <<80, 45>>
    /\ sensors["battery_level"].value = 80

(* ------------------- decoding over the whole byte range ----------------- *)

\* every characteristic identifier parser.py imports
AllUuids == DispatchedUuids \cup { CHARACTERISTIC_4030 }

\* raw values of any first byte, with and without further bytes
ByteValues ==
    { << >> } \cup { << n >> : n \in 0..255 }
        \cup { << n, m >> : n \in {0, 45, 255}, m \in {0, 200} }

\* process_characteristic_value is run on a characteristic out of uuids and
\* a value out of values, as a read or a notification hands them over
ProcessCharacteristicValue(uuids, values) ==
    \E uuid \in uuids, value \in values :
        LET r == process_characteristic_value(sensors, uuid, value)
        IN  /\ sensors' = r.sensors
            /\ lastSample' = IF r.raised \/ uuid \notin DispatchedUuids THEN lastSample
                             ELSE Store(lastSample, uuid, value)
            /\ lastOp' = [ op |-> "process_characteristic_value", uuid |-> uuid,
                           value |-> value, raised |-> r.raised ]
            /\ UNCHANGED << device, binary_sensors, cadence, poll >>

\* a device that exposes an unknown readable characteristic before the
\* battery level
DecodeEnumerations ==
    { << [ uuid |-> CHARACTERISTIC_4030, properties |-> {"read"} ],
         [ uuid |-> CHARACTERISTIC_BATTERY_LEVEL, properties |-> {"read", "notify"} ] >> }

\* one accepted advertisement
DecodeServiceInfos ==
    { si \in ServiceInfos :
        /\ si.address[6] = <<"f","f">>
        /\ si.manufacturer_data = [ id \in {SONICARE_MANUFACTURER} |-> Zeros(9) ] }

\* no sample of the whole byte range was processed yet
BeforeSample == lastOp.op # "process_characteristic_value"

\* an identified device is polled and notifies; right after a poll returned
\* one sample of any characteristic and any first byte is processed
NextDecode ==
    \/ BeforeSample /\ StartUpdate(DecodeServiceInfos)
    \/ BeforeSample /\ AsyncPoll
    \/ BeforeSample /\ EstablishConnectionRaises
    \/ BeforeSample /\ EstablishConnectionReturns(DecodeEnumerations)
    \/ BeforeSample /\ ReadRaises
    \/ BeforeSample /\ ReadReturns
    \/ BeforeSample /\ StartNotifyNotify
    \/ BeforeSample /\ Notification
    \/ JustReturned /\ ProcessCharacteristicValue(AllUuids, ByteValues)

SpecDecode == Init /\ [][NextDecode]_vars

(* -------------------------------- C11 ----------------------------------- *)

\* the step in which async_poll returns
ReturnStep == pc # "idle" /\ pc' = "idle" /\ result' = "returned"

\* C11: finalize does not change the accumulator. No step removes a reading;
\* finalize applied to the accumulator as the return left it gives the
\* returned snapshot again; a return with the accumulator as the previous
\* return left it gives an equal snapshot; and every key of an earlier
\* snapshot is in the later one, with the value the accumulator holds.
C11_FinalizeKeepsAccumulator ==
    [][ /\ DOMAIN sensors \subseteq DOMAIN sensors'
        /\ ReturnStep =>
            /\ snapshot' = Some(_finish_update(device', sensors', binary_sensors'))
            /\ snapshot'[1].entity_values = sensors'
            /\ snapshot # Nothing =>
                  /\ DOMAIN snapshot[1].entity_values
                        \subseteq DOMAIN snapshot'[1].entity_values
                  /\ ( /\ snapshot = Some(_finish_update(device, sensors, binary_sensors))
                       /\ UNCHANGED accumulator )
                     => snapshot' = snapshot ]_vars

\* a poll of a device without characteristics returned the battery level
\* and the handle session state recorded in earlier cycles
C11_Witness ==
    /\ JustReturned
    /\ chars = << >>
    /\ "battery_level" \in DOMAIN snapshot[1].entity_values
    /\ snapshot[1].entity_values["battery_level"].value = 80
    /\ "handle_session_state" \in DOMAIN snapshot[1].entity_values

(* ------------------------ samples, for C13 to C17 ----------------------- *)

\* the operations that hand a sample to process_characteristic_value
SampleOps == { "read_gatt_char", "notification", "process_characteristic_value" }

\* the last step handed a non-empty sample of uuid to process_characteristic_value
Sampled(uuid) ==
    /\ lastOp.op \in SampleOps
    /\ lastOp.uuid = uuid
    /\ lastOp.value # << >>

\* this step hands a sample to process_characteristic_value (a read that the
\* transport failed hands over nothing)
SampleStep ==
    /\ lastOp'.op \in SampleOps
    /\ lastOp'.op = "read_gatt_char" => log'[Len(log')].outcome # "raised"

NumericUuids == DispatchedUuids \ { HANDLE_SESSION_STATE }

(* -------------------------------- C13 ----------------------------------- *)

\* the labels of the handle session state, code by code
SessionLabel(n) ==
    CASE n = 0 -> "off"
      [] n = 1 -> "standby"
      [] n = 2 -> "brushing"
      [] n = 3 -> "charging"
      [] n = 4 -> "shutdown"
      [] n = 5 -> "validate"
      [] n = 6 -> "unknown6"
      [] n = 7 -> "unknown7"
      [] OTHER -> "unknown state value " \o ToString(n)

\* C13: decoding a non-empty handle session state value never fails: for
\* every first byte n in 0..255 a handle_session_state reading is recorded,
\* labelled off, standby, brushing, charging, shutdown, validate, unknown6,
\* unknown7 for n = 0..7 and "unknown state value n" otherwise.
C13_HandleSessionStateDecodes ==
    Sampled(HANDLE_SESSION_STATE) =>
        /\ ~lastOp.raised
        /\ lastOp.value[1] \in 0..255
        /\ "handle_session_state" \in DOMAIN sensors
        /\ sensors["handle_session_state"].value = SessionLabel(lastOp.value[1])
        /\ lastOp.value[1] = 2 => sensors["handle_session_state"].value = "brushing"
        /\ lastOp.value[1] = 9 =>
              sensors["handle_session_state"].value = "unknown state value 9"

\* the value [255, 200] was decoded to "unknown state value 255"
C13_Witness ==
    /\ Sampled(HANDLE_SESSION_STATE)
    /\ lastOp.value = << 255, 200 >>
    /\ sensors["handle_session_state"].value = "unknown state value 255"

(* -------------------------------- C14 ----------------------------------- *)

\* C14: for each numeric characteristic and every non-empty raw value the
\* reading under the characteristic's own key has the first byte as its
\* value, further bytes being ignored; the battery reading has unit
\* percentage and device class battery.
C14_NumericIsFirstByte ==
    \A uuid \in NumericUuids :
        Sampled(uuid) =>
            /\ ~lastOp.raised
            /\ KeyOf(uuid) \in DOMAIN sensors
            /\ sensors[KeyOf(uuid)].value = lastOp.value[1]
            /\ uuid = CHARACTERISTIC_BATTERY_LEVEL =>
                  /\ sensors["battery_level"].unit = "%"
                  /\ sensors["battery_level"].device_class = "battery"

\* a battery read of [80, 45] recorded battery_level = 80
C14_Witness ==
    /\ Sampled(CHARACTERISTIC_BATTERY_LEVEL)
    /\ lastOp.op = "read_gatt_char"
    /\ lastOp.value = << 80, 45 >>
    /\ sensors["battery_level"] = Reading("%", 80, "battery", "Battery")

(* -------------------------------- C15 ----------------------------------- *)

\* C15: a sample of a characteristic outside the known set, whatever its
\* value (an empty one included), raises nothing and leaves every sensor
\* key, binary sensor key and identity field as it was; when it came from a
\* read, the read counts as returned and the poll goes on with the steps
\* after it instead of leaving the loop through the exception handler.
C15_UnknownIsIgnored ==
    [][ ( SampleStep /\ lastOp'.uuid \notin DispatchedUuids ) =>
            /\ ~lastOp'.raised
            /\ UNCHANGED accumulator
            /\ lastOp'.op = "read_gatt_char" =>
                  /\ log'[Len(log')].outcome = "returned"
                  /\ result' # "raised"
                  /\ LET next == AfterRead(chars, idx)
                     IN  IF next.pc = "return"
                         THEN pc' = "idle" /\ result' = "returned"
                         ELSE pc' = next.pc /\ idx' = next.idx ]_vars

\* the read of the unknown characteristic returned an empty value, and the
\* poll went on to read the battery level of the next characteristic
C15_Witness ==
    /\ Len(log) = 2
    /\ chars[1].uuid = CHARACTERISTIC_4030
    /\ log[1].idx = 1 /\ log[1].call = "read_gatt_char"
    /\ log[1].value = << >> /\ log[1].outcome = "returned"
    /\ log[2].idx = 2 /\ log[2].call = "read_gatt_char" /\ log[2].outcome = "returned"
    /\ Sampled(CHARACTERISTIC_BATTERY_LEVEL)

(* -------------------------------- C17 ----------------------------------- *)

\* C17: recording a sample of a known characteristic, from a read, a
\* notification or a direct call, changes the sensor entry of that
\* characteristic's own key and nothing else: every other sensor key, every
\* binary sensor, the identity fields, _brushing and _last_brush stay.
C17_KeyUpdateIsIndependent ==
    [][ ( SampleStep /\ lastOp'.uuid \in DispatchedUuids /\ ~lastOp'.raised ) =>
            /\ DOMAIN sensors' = DOMAIN sensors \cup { KeyOf(lastOp'.uuid) }
            /\ \A k \in DOMAIN sensors \ { KeyOf(lastOp'.uuid) } : sensors'[k] = sensors[k]
            /\ UNCHANGED << device, binary_sensors, _brushing, _last_brush >> ]_vars

\* a brushing time was recorded while the battery level of an earlier read
\* and the identity of an earlier advertisement are still there
C17_Witness ==
    /\ Sampled(CHARACTERISTIC_BRUSHING_TIME)
    /\ sensors["brushing_time"].value = lastOp.value[1]
    /\ "battery_level" \in DOMAIN sensors
    /\ sensors["battery_level"].value = 80
    /\ device.device_type = "HX6340"

(* -------------------------------- C16 ----------------------------------- *)

\* the place of a property in the body of the loop
Phase(property) ==
    CASE property = "read" -> 1
      [] property = "indicate" -> 2
      [] property = "notify" -> 3

\* the phase async_poll is suspended in
PhaseOfPc ==
    CASE pc = "read_gatt_char" -> 1
      [] pc = "start_notify_indicate" -> 2
      [] pc = "start_notify_notify" -> 3

\* C16: within one poll the characteristics are taken strictly in the order
\* of the enumeration: of two transport calls, the earlier one is for an
\* earlier characteristic or, for the same characteristic, it is the read
\* (which records its value before it is logged) before a subscribe and the
\* indicate subscribe before the notify subscribe; the call the poll is
\* suspended in comes after every call made so far.
C16_EnumerationOrder ==
    /\ \A k, l \in DOMAIN log :
          k < l =>
              \/ log[k].idx < log[l].idx
              \/ /\ log[k].idx = log[l].idx
                 /\ Phase(log[k].property) < Phase(log[l].property)
    /\ \A k \in DOMAIN log :
          /\ log[k].idx \in DOMAIN chars
          /\ log[k].property \in chars[log[k].idx].properties
          /\ log[k].call = IF log[k].property = "read" THEN "read_gatt_char"
                           ELSE "start_notify"
    /\ InPoll =>
          \A k \in DOMAIN log :
              \/ log[k].idx < idx
              \/ log[k].idx = idx /\ Phase(log[k].property) < PhaseOfPc

\* two characteristics were read and subscribed to, the first one wholly
\* before the second
C16_Witness ==
    /\ JustReturned
    /\ Len(chars) = 2
    /\ Len(log) >= 4
    /\ log[1].idx = 1 /\ log[1].property = "read" /\ log[1].outcome = "returned"
    /\ log[2].idx = 1 /\ log[2].call = "start_notify"
    /\ log[Len(log) - 1].idx = 2 /\ log[Len(log) - 1].property = "read"
    /\ log[Len(log)].idx = 2 /\ log[Len(log)].call = "start_notify"

(* -------------------------------- C18 ----------------------------------- *)

\* the start_notify calls made for characteristic j in this poll
StartNotifyCalls(j) ==
    { k \in DOMAIN log : log[k].idx = j /\ log[k].call = "start_notify" }

\* C18: within one poll at most one start_notify call is made per
\* characteristic, also for a characteristic that has both the indicate and
\* the notify property. The code makes one call per property: this
\* statement is violated.
C18_OneSubscribePerCharacteristic ==
    \A j \in DOMAIN chars : Cardinality(StartNotifyCalls(j)) <= 1

(* -------------------------------- C19 ----------------------------------- *)

\* C19: no operation records a binary sensor: the binary sensor map is empty
\* in every state and in every snapshot, also after a handle session state
\* reading of "brushing".
C19_NoBinarySensor ==
    /\ DOMAIN binary_sensors = {}
    /\ snapshot # Nothing =>
          /\ DOMAIN snapshot[1].binary_entity_values = {}
          /\ \A b \in SonicareBinarySensor :
                b \notin DOMAIN snapshot[1].binary_entity_values

\* the snapshot of an identified device holds the handle session state
\* "brushing" of a subscribed characteristic, and no binary sensor
C19_Witness ==
    /\ JustReturned
    /\ snapshot[1].device.device_type = "HX6340"
    /\ "handle_session_state" \in DOMAIN snapshot[1].entity_values
    /\ snapshot[1].entity_values["handle_session_state"].value = "brushing"
    /\ HANDLE_SESSION_STATE \in subscribed
    /\ "brushing" \notin DOMAIN snapshot[1].binary_entity_values

====
